---- MODULE Spec2Model ----
(***************************************************************************)
(* Model of arista's Discoverer (src/arista/discoverer.py): a gst.Pipeline *)
(* that probes a media resource and emits 'discovered' once it decides.    *)
(*                                                                         *)
(* The object's fields are the variables.  Every method is an operator on  *)
(* the record of all fields (State), so that a method calling another      *)
(* (_timed_out_or_eos -> _finished) is the composition the code performs;  *)
(* an action applies one callback to State and installs the result.        *)
(*                                                                         *)
(* The collaborators are modelled by what the code uses of them:           *)
(*   - the GLib main loop: pending timeout sources (timeouts), pending     *)
(*     idle callbacks (idles), source ids (nextid);                        *)
(*   - the bus: the signal-watch reference count (watch) and the number of *)
(*     connected "message" handlers (handlers);                            *)
(*   - the graph: its state (pstate); graph signals (pad-added,            *)
(*     no-more-pads, unknown-type, have-type, notify::caps, element-added) *)
(*     come from the graph's streaming threads and are delivered only      *)
(*     while the graph is PLAYING; each callback runs atomically.          *)
(* emitted, decisions, seen and calls are history variables: they record   *)
(* what was emitted, each entry into _finished, the unrecognized           *)
(* descriptors reported, and the number of discover() calls.               *)
(***************************************************************************)
EXTENDS Integers, Sequences, FiniteSets, TLC

\* ------------------------------------------------------------------ bounds
\* discover() calls made by the caller
MaxDiscover == 2
\* entries into _finished (each schedules one idle _stop)
MaxFinished == 2
\* recognized endpoints (sinknumber)
MaxPads == 2
\* length of otherstreams
MaxOther == 1

\* ------------------------------------------------------------ input domains
\* A capability descriptor: str is caps.to_string(), kept as its tokens so
\* that the code's substring tests are computed, not assumed.
StrContains(str, tok) == \E i \in 1..Len(str) : str[i] = tok

\* self.audiocaps = {} / self.videocaps = {} (no capability recorded); also a
\* pad with no negotiated caps (get_negotiated_caps() returns None).
NoCaps == << >>

\* bool(caps): {} and None are false, a negotiated gst.Caps is true
Truthy(caps) == caps # NoCaps

AudioIntCaps == [str |-> <<"audio", "x-raw-int">>, rate |-> 48000, width |-> 16, depth |-> 16, channels |-> 2]

AudioFloatCaps == [str |-> <<"audio", "x-raw-float">>, rate |-> 44100, width |-> 32, channels |-> 1]

VideoYuvCaps == [str |-> <<"video", "x-raw-yuv">>, width |-> 1920, height |-> 1080, framerate |-> <<30000, 1001>>]

\* what pad.get_negotiated_caps() can return in _notify_caps_cb
NegotiatedCaps == {AudioIntCaps, AudioFloatCaps, VideoYuvCaps, NoCaps}

\* what pad.get_caps().to_string() can be in _new_decoded_pad_cb
PadCaps == {<<"audio", "x-raw-int">>, <<"video", "x-raw-yuv">>, <<"text", "plain">>}

\* what caps.to_string() can be in _unknown_type_cb
UnknownCaps == {<<"application", "x-foo">>}

\* what caps.to_string() can be in _have_type_cb
MimeTypes == {<<"application", "ogg">>}

\* pad.get_peer().query(q): it fails, or answers a duration
Durations == {5}

QueryResults == {[ok |-> FALSE, length |-> 0]} \cup {[ok |-> TRUE, length |-> d] : d \in Durations}

TagKeys == {"title"}

TagVals == {"a"}

\* message.parse_tag(): a non-empty key -> value mapping
TagLists == UNION {[K -> TagVals] : K \in (SUBSET TagKeys) \ {{}}}

\* a resource that carries two tag keys with two possible values each
AllTagKeys == {"title", "audio-codec"}

AllTagVals == {"a", "b"}

AllTagLists == UNION {[K -> AllTagVals] : K \in (SUBSET AllTagKeys) \ {{}}}

BusMessages == {[type |-> "EOS"], [type |-> "ERROR"]} \cup {[type |-> "TAG", taglist |-> t] : t \in TagLists}

Max(a, b) == IF a >= b THEN a ELSE b

VARIABLES mimetype, audiocaps, videocaps, videowidth, videoheight, videorate, audiofloat, audiorate, audiodepth, audiowidth, audiochannels, audiolength, videolength, is_video, is_audio, otherstreams, finished, tags, _success, _nomorepads, _timeoutid, sinknumber, typefind, elemcb, unknowncb, pstate, watch, handlers, timeouts, idles, nextid, emitted, decisions, seen, calls

vars == <<mimetype, audiocaps, videocaps, videowidth, videoheight, videorate, audiofloat, audiorate, audiodepth, audiowidth, audiochannels, audiolength, videolength, is_video, is_audio, otherstreams, finished, tags, _success, _nomorepads, _timeoutid, sinknumber, typefind, elemcb, unknowncb, pstate, watch, handlers, timeouts, idles, nextid, emitted, decisions, seen, calls>>

\* the object and its collaborators, as one record
State == [mimetype |-> mimetype, audiocaps |-> audiocaps, videocaps |-> videocaps, videowidth |-> videowidth, videoheight |-> videoheight, videorate |-> videorate, audiofloat |-> audiofloat, audiorate |-> audiorate, audiodepth |-> audiodepth, audiowidth |-> audiowidth, audiochannels |-> audiochannels, audiolength |-> audiolength, videolength |-> videolength, is_video |-> is_video, is_audio |-> is_audio, otherstreams |-> otherstreams, finished |-> finished, tags |-> tags, _success |-> _success, _nomorepads |-> _nomorepads, _timeoutid |-> _timeoutid, sinknumber |-> sinknumber, typefind |-> typefind, elemcb |-> elemcb, unknowncb |-> unknowncb, pstate |-> pstate, watch |-> watch, handlers |-> handlers, timeouts |-> timeouts, idles |-> idles, nextid |-> nextid, emitted |-> emitted, decisions |-> decisions, seen |-> seen, calls |-> calls]

Install(r) ==
    /\ mimetype' = r.mimetype /\ audiocaps' = r.audiocaps /\ videocaps' = r.videocaps
    /\ videowidth' = r.videowidth /\ videoheight' = r.videoheight /\ videorate' = r.videorate
    /\ audiofloat' = r.audiofloat /\ audiorate' = r.audiorate /\ audiodepth' = r.audiodepth
    /\ audiowidth' = r.audiowidth /\ audiochannels' = r.audiochannels
    /\ audiolength' = r.audiolength /\ videolength' = r.videolength
    /\ is_video' = r.is_video /\ is_audio' = r.is_audio /\ otherstreams' = r.otherstreams
    /\ finished' = r.finished /\ tags' = r.tags /\ _success' = r._success
    /\ _nomorepads' = r._nomorepads /\ _timeoutid' = r._timeoutid /\ sinknumber' = r.sinknumber
    /\ typefind' = r.typefind /\ elemcb' = r.elemcb /\ unknowncb' = r.unknowncb
    /\ pstate' = r.pstate /\ watch' = r.watch /\ handlers' = r.handlers
    /\ timeouts' = r.timeouts /\ idles' = r.idles /\ nextid' = r.nextid
    /\ emitted' = r.emitted /\ decisions' = r.decisions /\ seen' = r.seen /\ calls' = r.calls

\* the bounds of the model, on the state an action leads to
Bounded(r) ==
    /\ Len(r.decisions) <= MaxFinished
    /\ Len(r.otherstreams) <= MaxOther
    /\ r.sinknumber <= MaxPads

\* ----------------------------------------------------------------- methods
\* Discoverer.length
length(s) == Max(s.videolength, s.audiolength)

\* _finished leaving the timeout source in place
_finished_keeps_timeout(s, success, by) ==
    [s EXCEPT !._success = success,
              !.watch = IF s.watch > 0 THEN s.watch - 1 ELSE 0,
              !.idles = s.idles + 1,
              !.nextid = s.nextid + 1,
              !.decisions = Append(s.decisions, [by |-> by, success |-> success, is_audio |-> s.is_audio, is_video |-> s.is_video, acaps |-> Truthy(s.audiocaps), vcaps |-> Truthy(s.videocaps)])]

\* _finished calling _stop itself instead of handing it to idle_add
_finished_stops_inline(s, success, by) ==
    [s EXCEPT !._success = success,
              !.watch = IF s.watch > 0 THEN s.watch - 1 ELSE 0,
              !.timeouts = IF s._timeoutid # 0 THEN s.timeouts \ {s._timeoutid} ELSE s.timeouts,
              !._timeoutid = 0,
              !.finished = TRUE,
              !.pstate = "READY",
              !.emitted = Append(s.emitted, [success |-> success, sync |-> TRUE, pstate |-> s.pstate]),
              !.decisions = Append(s.decisions, [by |-> by, success |-> success, is_audio |-> s.is_audio, is_video |-> s.is_video, acaps |-> Truthy(s.audiocaps), vcaps |-> Truthy(s.videocaps)])]

\* Discoverer._finished; by names the caller (history only)
_finished(s, success, by) ==
    [s EXCEPT !._success = success,
              !.watch = IF s.watch > 0 THEN s.watch - 1 ELSE 0,
              !.timeouts = IF s._timeoutid # 0 THEN s.timeouts \ {s._timeoutid} ELSE s.timeouts,
              !._timeoutid = 0,
              !.idles = s.idles + 1,
              !.nextid = s.nextid + 1,
              !.decisions = Append(s.decisions, [by |-> by, success |-> success, is_audio |-> s.is_audio, is_video |-> s.is_video, acaps |-> Truthy(s.audiocaps), vcaps |-> Truthy(s.videocaps)])]

\* _timed_out_or_eos without the video clause of its test
_timed_out_or_eos_audio_only(s, by) ==
    IF \/ (~s.is_audio /\ ~s.is_video)
       \/ (s.is_audio /\ ~Truthy(s.audiocaps))
    THEN _finished(s, FALSE, by)
    ELSE _finished(s, TRUE, by)

\* _timed_out_or_eos with the video clause lacking its "not"
_timed_out_or_eos_video_inverted(s, by) ==
    IF \/ (~s.is_audio /\ ~s.is_video)
       \/ (s.is_audio /\ ~Truthy(s.audiocaps))
       \/ (s.is_video /\ Truthy(s.videocaps))
    THEN _finished(s, FALSE, by)
    ELSE _finished(s, TRUE, by)

\* Discoverer._timed_out_or_eos
_timed_out_or_eos(s, by) ==
    IF \/ (~s.is_audio /\ ~s.is_video)
       \/ (s.is_audio /\ ~Truthy(s.audiocaps))
       \/ (s.is_video /\ ~Truthy(s.videocaps))
    THEN _finished(s, FALSE, by)
    ELSE _finished(s, TRUE, by)

\* _stop without set_state(gst.STATE_READY): the graph keeps playing
_stop_keeps_playing(s) ==
    [s EXCEPT !.finished = TRUE,
              !.emitted = Append(s.emitted, [success |-> s._success, sync |-> FALSE, pstate |-> s.pstate])]

\* Discoverer._stop, run from the idle source _finished added
_stop(s) ==
    [s EXCEPT !.finished = TRUE,
              !.pstate = "READY",
              !.emitted = Append(s.emitted, [success |-> s._success, sync |-> FALSE, pstate |-> "READY"])]

\* _bus_message_cb keeping the first value of a tag key
_bus_message_cb_first_wins(s, message) ==
    CASE message.type = "EOS" -> _timed_out_or_eos(s, "eos")
      [] message.type = "TAG" ->
            [s EXCEPT !.tags = [key \in (DOMAIN s.tags) \cup (DOMAIN message.taglist) |->
                                  IF key \in DOMAIN s.tags THEN s.tags[key] ELSE message.taglist[key]]]
      [] message.type = "ERROR" -> _finished(s, FALSE, "error")
      [] OTHER -> s

\* Discoverer._bus_message_cb
_bus_message_cb(s, message) ==
    CASE message.type = "EOS" -> _timed_out_or_eos(s, "eos")
      [] message.type = "TAG" ->
            [s EXCEPT !.tags = [key \in (DOMAIN s.tags) \cup (DOMAIN message.taglist) |->
                                  IF key \in DOMAIN message.taglist THEN message.taglist[key] ELSE s.tags[key]]]
      [] message.type = "ERROR" -> _finished(s, FALSE, "error")
      [] OTHER -> s

\* discover without gobject.timeout_add
discover_no_timeout(s, started) ==
    IF s.finished
    THEN [s EXCEPT !.emitted = Append(s.emitted, [success |-> FALSE, sync |-> TRUE, pstate |-> s.pstate])]
    ELSE LET armed == [s EXCEPT !.watch = s.watch + 1, !.handlers = s.handlers + 1]
         IN  IF started
             THEN [armed EXCEPT !.pstate = "PLAYING"]
             ELSE _finished(armed, FALSE, "start")

\* discover without the test of self.finished
discover_no_finished_test(s, started) ==
    LET armed == [s EXCEPT !.watch = s.watch + 1,
                           !.handlers = s.handlers + 1,
                           !._timeoutid = s.nextid,
                           !.timeouts = s.timeouts \cup {s.nextid},
                           !.nextid = s.nextid + 1]
    IN  IF started
        THEN [armed EXCEPT !.pstate = "PLAYING"]
        ELSE _finished(armed, FALSE, "start")

\* discover passing True to _finished when the graph does not start
discover_start_failure_success(s, started) ==
    IF s.finished
    THEN [s EXCEPT !.emitted = Append(s.emitted, [success |-> FALSE, sync |-> TRUE, pstate |-> s.pstate])]
    ELSE LET armed == [s EXCEPT !.watch = s.watch + 1,
                                !.handlers = s.handlers + 1,
                                !._timeoutid = s.nextid,
                                !.timeouts = s.timeouts \cup {s.nextid},
                                !.nextid = s.nextid + 1]
         IN  IF started
             THEN [armed EXCEPT !.pstate = "PLAYING"]
             ELSE _finished(armed, TRUE, "start")

\* Discoverer.discover; started is the result of set_state(gst.STATE_PLAYING)
discover(s, started) ==
    IF s.finished
    THEN [s EXCEPT !.emitted = Append(s.emitted, [success |-> FALSE, sync |-> TRUE, pstate |-> s.pstate])]
    ELSE LET armed == [s EXCEPT !.watch = s.watch + 1,
                                !.handlers = s.handlers + 1,
                                !._timeoutid = s.nextid,
                                !.timeouts = s.timeouts \cup {s.nextid},
                                !.nextid = s.nextid + 1]
         IN  IF started
             THEN [armed EXCEPT !.pstate = "PLAYING"]
             ELSE _finished(armed, FALSE, "start")

\* Discoverer._element_added_cb
_element_added_cb(s, has_typefind, has_unknown_type) ==
    [s EXCEPT !.typefind = s.typefind \/ has_typefind,
              !.unknowncb = s.unknowncb \/ has_unknown_type]

\* _no_more_pads_cb finishing when every recognized kind has capabilities
_no_more_pads_cb_finishes(s) ==
    LET rec == [s EXCEPT !._nomorepads = TRUE]
    IN  IF /\ s.is_audio \/ s.is_video
           /\ s.is_audio => Truthy(s.audiocaps)
           /\ s.is_video => Truthy(s.videocaps)
        THEN _finished(rec, TRUE, "caps")
        ELSE rec

\* Discoverer._no_more_pads_cb
_no_more_pads_cb(s) == [s EXCEPT !._nomorepads = TRUE]

\* _unknown_type_cb without the test on is_video and is_audio
_unknown_type_cb_always_fatal(s, str) ==
    _finished([s EXCEPT !.otherstreams = Append(s.otherstreams, str),
                        !.seen = s.seen \cup {str},
                        !.finished = TRUE], FALSE, "unknown")

\* Discoverer._unknown_type_cb
_unknown_type_cb(s, str) ==
    LET noted == [s EXCEPT !.otherstreams = Append(s.otherstreams, str),
                           !.seen = s.seen \cup {str}]
    IN  IF ~s.is_video /\ ~s.is_audio
        THEN _finished([noted EXCEPT !.finished = TRUE], FALSE, "unknown")
        ELSE noted

\* Discoverer._have_type_cb
_have_type_cb(s, str) == [s EXCEPT !.mimetype = str]

\* Discoverer._notify_caps_cb; q is the answer of the duration query
_notify_caps_cb(s, caps, q) ==
    IF ~Truthy(caps) THEN s
    ELSE LET len == IF q.ok THEN q.length ELSE -1
         IN  IF StrContains(caps.str, "audio")
             THEN LET rec == [s EXCEPT !.audiocaps = caps,
                                       !.audiolength = len,
                                       !.audiorate = caps.rate,
                                       !.audiowidth = caps.width,
                                       !.audiochannels = caps.channels,
                                       !.audiofloat = IF StrContains(caps.str, "x-raw-float") THEN TRUE ELSE s.audiofloat,
                                       !.audiodepth = IF StrContains(caps.str, "x-raw-float") THEN s.audiodepth ELSE caps.depth]
                  IN  IF rec._nomorepads /\ (~rec.is_video \/ Truthy(rec.videocaps))
                      THEN _finished(rec, TRUE, "caps")
                      ELSE rec
             ELSE IF StrContains(caps.str, "video")
             THEN LET rec == [s EXCEPT !.videocaps = caps,
                                       !.videolength = len,
                                       !.videowidth = caps.width,
                                       !.videoheight = caps.height,
                                       !.videorate = caps.framerate]
                  IN  IF rec._nomorepads /\ (~rec.is_audio \/ Truthy(rec.audiocaps))
                      THEN _finished(rec, TRUE, "caps")
                      ELSE rec
             ELSE s

\* Discoverer._new_decoded_pad_cb
_new_decoded_pad_cb(s, str) ==
    IF StrContains(str, "audio")
    THEN [s EXCEPT !.is_audio = TRUE, !.sinknumber = s.sinknumber + 1]
    ELSE IF StrContains(str, "video")
    THEN [s EXCEPT !.is_video = TRUE, !.sinknumber = s.sinknumber + 1]
    ELSE [s EXCEPT !.seen = s.seen \cup {str}]

\* the bus emits "message" to every connected handler, in turn
RECURSIVE EmitMessage(_, _, _)
EmitMessage(s, message, n) ==
    IF n = 0 THEN s ELSE EmitMessage(_bus_message_cb(s, message), message, n - 1)

\* ------------------------------------------------------------------- states
\* Discoverer.__init__: the fields, and which signals the constructor wired
\* (mimetype = None is the empty descriptor).
\* custom: a dvd://device@title locator (dvdreadsrc + decodebin2, have-type
\* connected at once); otherwise uridecodebin with element-added connected.
InitFields(custom) ==
    /\ mimetype = NoCaps /\ audiocaps = NoCaps /\ videocaps = NoCaps
    /\ videowidth = 0 /\ videoheight = 0 /\ videorate = <<0, 1>>
    /\ audiofloat = FALSE /\ audiorate = 0 /\ audiodepth = 0 /\ audiowidth = 0 /\ audiochannels = 0
    /\ audiolength = 0 /\ videolength = 0
    /\ is_video = FALSE /\ is_audio = FALSE
    /\ otherstreams = << >>
    /\ finished = FALSE /\ tags = << >> /\ _success = FALSE /\ _nomorepads = FALSE
    /\ _timeoutid = 0 /\ sinknumber = 0
    /\ typefind = custom /\ elemcb = ~custom /\ unknowncb = FALSE

Init ==
    /\ \E custom \in BOOLEAN : InitFields(custom)
    /\ pstate = "NULL" /\ watch = 0 /\ handlers = 0
    /\ timeouts = {} /\ idles = 0 /\ nextid = 1
    /\ emitted = << >> /\ decisions = << >> /\ seen = {} /\ calls = 0

\* ------------------------------------------------------------------ actions
\* One session is one discover() call and the events that follow it (Spec).
\* Callers that call discover() again are modelled by Rediscover (RecallSpec).

\* the caller calls discover() on the constructed object
Discover ==
    /\ calls = 0
    /\ \E started \in BOOLEAN :
          LET r == discover(State, started)
          IN  Bounded(r) /\ Install([r EXCEPT !.calls = calls + 1])

\* the caller calls discover() again; a graph that is playing stays playing
Rediscover ==
    /\ calls > 0 /\ calls < MaxDiscover
    /\ \E started \in BOOLEAN :
          /\ (pstate = "PLAYING" => started)
          /\ LET r == discover(State, started)
             IN  Bounded(r) /\ Install([r EXCEPT !.calls = calls + 1])

\* the timeout source fires; its callback returns a false value, so the
\* source is removed after the call
Timeout ==
    \E id \in timeouts :
        LET r == _timed_out_or_eos(State, "timeout")
        IN  Bounded(r) /\ Install([r EXCEPT !.timeouts = r.timeouts \ {id}])

\* the bus watch dispatches a message
BusMessageOf(messages) ==
    /\ watch > 0
    /\ \E message \in messages :
          LET r == EmitMessage(State, message, handlers)
          IN  Bounded(r) /\ Install(r)

BusMessage == BusMessageOf(BusMessages)

\* the idle source runs _stop once
Stop ==
    /\ idles > 0
    /\ Install([_stop(State) EXCEPT !.idles = idles - 1])

\* uridecodebin adds an element: its decodebin (typefind inside, unknown-type
\* supported) or another element (no get_by_name: AttributeError, ignored)
ElementAdded ==
    /\ pstate = "PLAYING" /\ elemcb
    /\ \E is_decodebin \in BOOLEAN :
          Install(_element_added_cb(State, is_decodebin, is_decodebin))

HaveType ==
    /\ pstate = "PLAYING" /\ typefind
    /\ \E str \in MimeTypes : Install(_have_type_cb(State, str))

UnknownType ==
    /\ pstate = "PLAYING" /\ unknowncb
    /\ \E str \in UnknownCaps :
          LET r == _unknown_type_cb(State, str)
          IN  Bounded(r) /\ Install(r)

NewDecodedPadOf(strs) ==
    /\ pstate = "PLAYING"
    /\ \E str \in strs :
          LET r == _new_decoded_pad_cb(State, str)
          IN  Bounded(r) /\ Install(r)

NewDecodedPad == NewDecodedPadOf(PadCaps)

NoMorePads ==
    /\ pstate = "PLAYING"
    /\ Install(_no_more_pads_cb(State))

\* notify::caps on the sink pad of a fakesink that _new_decoded_pad_cb added
\* for an endpoint of that kind
NotifyCapsOf(negotiated, answers) ==
    /\ pstate = "PLAYING"
    /\ sinknumber > 0
    /\ \E caps \in negotiated, q \in answers :
          /\ Truthy(caps) /\ StrContains(caps.str, "audio") => is_audio
          /\ Truthy(caps) /\ StrContains(caps.str, "video") => is_video
          /\ LET r == _notify_caps_cb(State, caps, q)
             IN  Bounded(r) /\ Install(r)

NotifyCaps == NotifyCapsOf(NegotiatedCaps, QueryResults)

Next ==
    \/ Discover
    \/ Timeout
    \/ BusMessage
    \/ Stop
    \/ ElementAdded
    \/ HaveType
    \/ UnknownType
    \/ NewDecodedPad
    \/ NoMorePads
    \/ NotifyCaps

Spec == Init /\ [][Next]_vars

\* a resource with tags: the bus delivers every tag list, EOS and ERROR
NextTag ==
    \/ Discover
    \/ Timeout
    \/ BusMessageOf({[type |-> "EOS"], [type |-> "ERROR"]} \cup {[type |-> "TAG", taglist |-> t] : t \in AllTagLists})
    \/ Stop
    \/ NewDecodedPadOf({<<"audio", "x-raw-int">>})
    \/ NoMorePads
    \/ NotifyCapsOf({AudioIntCaps}, {[ok |-> TRUE, length |-> 5]})

TagSpec == Init /\ [][NextTag]_vars

\* the run loop runs its timers and its idle handlers
FairSpec == Spec /\ WF_vars(Timeout) /\ WF_vars(Stop)

\* a session in which the bus never delivers a message
NextQuiet ==
    \/ Discover
    \/ Timeout
    \/ Stop
    \/ ElementAdded
    \/ UnknownType
    \/ NewDecodedPad
    \/ NoMorePads
    \/ NotifyCapsOf({AudioIntCaps, VideoYuvCaps, NoCaps}, {[ok |-> TRUE, length |-> 5]})

QuietFairSpec == Init /\ [][NextQuiet]_vars /\ WF_vars(Timeout) /\ WF_vars(Stop)

\* an audio-only resource, probed by a caller that calls discover() again
NextRecall ==
    \/ Discover
    \/ Rediscover
    \/ Timeout
    \/ BusMessageOf({[type |-> "EOS"], [type |-> "ERROR"]})
    \/ Stop
    \/ ElementAdded
    \/ UnknownType
    \/ NewDecodedPadOf({<<"audio", "x-raw-int">>})
    \/ NoMorePads
    \/ NotifyCapsOf({AudioIntCaps}, {[ok |-> TRUE, length |-> 5]})

RecallSpec == Init /\ [][NextRecall]_vars

\* ------------------------------------------------------------------- claims
\* the success criterion, on what a decision saw when _finished was entered
Criterion(d) == (d.is_audio \/ d.is_video) /\ (d.is_audio => d.acaps) /\ (d.is_video => d.vcaps)

AllFailure == \A j \in DOMAIN emitted : ~emitted[j].success

AllSuccess == \A j \in DOMAIN emitted : emitted[j].success

\* the result record the caller reads
Result == <<mimetype, is_audio, is_video, audiocaps, videocaps, audiolength, videolength, audiorate, audiowidth, audiodepth, audiochannels, audiofloat, videowidth, videoheight, videorate, otherstreams, tags, finished, _success>>

\* C1: in a session (one discover() call), 'discovered' is emitted at most
\* once, whatever the order of graph, bus, timer and idle events.
C1_DiscoveredAtMostOnce == Len(emitted) <= 1

\* C2: once discover() has started the graph, 'discovered' is eventually
\* emitted, also when no bus message ever arrives: the timeout fires and the
\* idle _stop emits (the run loop runs timers and idle handlers: FairSpec).
C2_StartedLeadsToDiscovered == (pstate = "PLAYING") ~> (Len(emitted) >= 1)

\* C2 witness: the only decision was the timeout's, no bus message was
\* handled (no tag, no EOS or ERROR decision), and _stop has emitted.
C2_Witness ==
    /\ Len(decisions) = 1 /\ decisions[1].by = "timeout"
    /\ tags = << >>
    /\ Len(emitted) = 1 /\ ~emitted[1].sync

\* C3: every outcome chosen by EOS or by the timeout is success exactly when
\* a kind was recognized and every recognized kind has recorded capabilities,
\* and that outcome is what _success holds when the decision is the last one.
C3_EosTimeoutCriterion ==
    /\ \A i \in DOMAIN decisions :
          decisions[i].by \in {"eos", "timeout"} => (decisions[i].success <=> Criterion(decisions[i]))
    /\ decisions # << >> => _success = decisions[Len(decisions)].success

\* C3 witness: EOS chose success with both kinds recognized and negotiated,
\* and (another state) the timeout chose failure with video not negotiated.
C3_Witness ==
    /\ Len(decisions) = 1 /\ decisions[1].by = "eos" /\ decisions[1].success
    /\ decisions[1].is_audio /\ decisions[1].is_video
    /\ _success

\* C4: once an ERROR message was handled, every 'discovered' emitted carries
\* failure.
C4_ErrorMeansFailure ==
    (\E i \in DOMAIN decisions : decisions[i].by = "error") => AllFailure

\* C5: if the timeout fired with audio and video recognized and only one of
\* them negotiated, every 'discovered' emitted carries failure.
C5_OneSidedTimeoutFails ==
    (\E i \in DOMAIN decisions :
        /\ decisions[i].by = "timeout"
        /\ decisions[i].is_audio /\ decisions[i].is_video
        /\ decisions[i].acaps # decisions[i].vcaps)
    => AllFailure

\* C6: audio appeared and negotiated, no video ever appeared, EOS arrived:
\* the outcome emitted is success and length equals the recorded audio
\* duration, whatever the duration query answered.
C6_AudioOnlyLength ==
    (/\ \E i \in DOMAIN decisions :
           decisions[i].by = "eos" /\ decisions[i].is_audio /\ decisions[i].acaps
     /\ ~is_video
     /\ emitted # << >>)
    => (AllSuccess /\ length(State) = audiolength)

\* C7: _finished is entered at most once per session, and the outcome it
\* decided is not changed afterwards.
C7_DecidedOnce ==
    /\ Len(decisions) <= 1
    /\ decisions # << >> => _success = decisions[1].success

\* C8: in a session (one discover() call), after 'discovered' has fired no
\* step changes a field of the result record.
C8_FrozenAfterDiscovered == [][emitted # << >> => Result' = Result]_vars

\* C8 witness: 'discovered' has fired on a populated record and an event (a
\* second idle _stop) has run after it.
C8_Witness ==
    /\ Len(emitted) = 2
    /\ is_audio /\ Truthy(audiocaps) /\ otherstreams # << >>

\* C9: discover() on a session whose finished flag is set emits
\* 'discovered' with failure inside the call and does nothing else: no bus
\* watch, no handler, no timeout, no state change of the graph, no idle.
C9_DiscoverOnFinished ==
    [][(calls' = calls + 1 /\ finished) =>
          /\ emitted' = Append(emitted, [success |-> FALSE, sync |-> TRUE, pstate |-> pstate])
          /\ UNCHANGED <<Result, watch, handlers, timeouts, _timeoutid, nextid, idles, pstate, decisions, _nomorepads, sinknumber>>]_vars

\* C9 witness: a 'discovered' emitted inside discover(), on a session that
\* _stop had finished.
C9_Witness ==
    \E j \in DOMAIN emitted : emitted[j].sync /\ j > 1 /\ pstate = "READY"

\* C10: when no audio and no video endpoint appeared, every 'discovered'
\* carries failure and otherstreams holds every unrecognized descriptor that
\* was reported, by unknown-type or as a new endpoint.
C10_OtherListComplete ==
    (emitted # << >> /\ ~is_audio /\ ~is_video)
    => (AllFailure /\ \A str \in seen : \E k \in DOMAIN otherstreams : otherstreams[k] = str)

\* C11: once a kind's capabilities are recorded, no later step changes that
\* kind's recorded capabilities, duration or attributes.
C11_FirstNegotiationWins ==
    [][/\ Truthy(audiocaps) => <<audiocaps, audiolength, audiorate, audiowidth, audiochannels, audiodepth, audiofloat>>' = <<audiocaps, audiolength, audiorate, audiowidth, audiochannels, audiodepth, audiofloat>>
       /\ Truthy(videocaps) => <<videocaps, videolength, videowidth, videoheight, videorate>>' = <<videocaps, videolength, videowidth, videoheight, videorate>>]_vars

\* C12: when the first decision (by EOS, or by the capability notification
\* that found everything negotiated after no-more-pads) saw audio and video
\* recognized and negotiated, and no unknown-type, ERROR, timeout or start
\* failure decided anything, every 'discovered' carries success and is_audio,
\* is_video and both capability records are set.
C12_BothNegotiatedSucceeds ==
    (/\ decisions # << >>
     /\ \A i \in DOMAIN decisions : decisions[i].by \in {"eos", "caps"}
     /\ decisions[1].is_audio /\ decisions[1].is_video
     /\ decisions[1].acaps /\ decisions[1].vcaps
     /\ otherstreams = << >>)
    => (/\ _success /\ AllSuccess
        /\ is_audio /\ is_video /\ Truthy(audiocaps) /\ Truthy(videocaps))

\* C12 witness: both kinds negotiated, then no-more-pads, then EOS decided
\* and _stop emitted success.
C12_Witness ==
    /\ Len(decisions) = 1 /\ decisions[1].by = "eos"
    /\ decisions[1].is_audio /\ decisions[1].is_video /\ decisions[1].acaps /\ decisions[1].vcaps
    /\ _nomorepads /\ otherstreams = << >>
    /\ Len(emitted) = 1 /\ emitted[1].success

\* C13: when set_state(PLAYING) fails in discover(), no timeout stays
\* pending, the bus watch is removed, nothing else decides, and the one
\* 'discovered' emitted carries failure.
C13_StartFailureFails ==
    (decisions # << >> /\ decisions[1].by = "start")
    => (/\ timeouts = {} /\ _timeoutid = 0 /\ watch = 0
        /\ Len(decisions) = 1 /\ ~_success
        /\ Len(emitted) <= 1 /\ AllFailure
        /\ Len(emitted) + idles = 1)

\* C13 witness: the start failed and _stop has emitted failure.
C13_Witness ==
    /\ Len(decisions) = 1 /\ decisions[1].by = "start"
    /\ emitted = <<[success |-> FALSE, sync |-> FALSE, pstate |-> "READY"]>>

\* C14: a TAG message handled by the bus handler leaves every key it carries
\* mapped to its value, and every other key as it was: tags accumulate and
\* a key seen again takes the later value.
C14_TagsAccumulate ==
    [][\A t \in AllTagLists :
          BusMessageOf({[type |-> "TAG", taglist |-> t]}) =>
             /\ DOMAIN tags' = (DOMAIN tags) \cup (DOMAIN t)
             /\ \A key \in DOMAIN t : tags'[key] = t[key]
             /\ \A key \in (DOMAIN tags) \ (DOMAIN t) : tags'[key] = tags[key]]_vars

\* C14 witness: both keys are mapped, to different values.
C14_Witness ==
    /\ DOMAIN tags = AllTagKeys
    /\ tags["title"] = "b" /\ tags["audio-codec"] = "a"
    /\ watch > 0

\* C15: the step that decides (runs _finished) leaves no timeout pending and
\* the bus watch removed, and neither stops the graph nor emits; every
\* emission happens in a later idle step, on a graph that is in READY, and
\* none is made synchronously.
C15_TeardownOrdered ==
    /\ [](\A i \in DOMAIN emitted : ~emitted[i].sync /\ emitted[i].pstate = "READY")
    /\ [][/\ decisions' # decisions =>
              /\ _timeoutid' = 0 /\ timeouts' = {} /\ watch' = 0
              /\ idles' = idles + 1
              /\ emitted' = emitted /\ pstate' = pstate
          /\ emitted' # emitted =>
              /\ decisions' = decisions /\ decisions # << >>
              /\ idles' = idles - 1
              /\ pstate' = "READY"]_vars

\* C15 witness: a decision is made, the graph still plays and nothing is
\* emitted yet.
C15_Witness ==
    /\ decisions # << >> /\ idles > 0
    /\ pstate = "PLAYING" /\ emitted = << >>
    /\ timeouts = {} /\ watch = 0

\* C16: once _finished has run in a session started by one discover() call,
\* no timeout is pending, and the timeout callback is never a later decider.
C16_NoTimeoutAfterFinished ==
    decisions # << >> =>
        /\ timeouts = {} /\ _timeoutid = 0
        /\ \A i \in DOMAIN decisions : i > 1 => decisions[i].by # "timeout"

\* C16 witness: something other than the timeout decided while the graph plays.
C16_Witness ==
    /\ decisions # << >> /\ decisions[1].by \in {"eos", "error", "caps", "unknown"}
    /\ pstate = "PLAYING" /\ timeouts = {}

\* C17: the step that sets _nomorepads changes nothing else: it decides
\* nothing, schedules nothing, and leaves every other field as it was.
C17_NoMorePadsOnlyFlag ==
    [][_nomorepads' # _nomorepads =>
          /\ _nomorepads'
          /\ <<mimetype, audiocaps, videocaps, videowidth, videoheight, videorate, audiofloat, audiorate, audiodepth, audiowidth, audiochannels, audiolength, videolength, is_video, is_audio, otherstreams, finished, tags, _success, _timeoutid, sinknumber>>' = <<mimetype, audiocaps, videocaps, videowidth, videoheight, videorate, audiofloat, audiorate, audiodepth, audiowidth, audiochannels, audiolength, videolength, is_video, is_audio, otherstreams, finished, tags, _success, _timeoutid, sinknumber>>
          /\ <<pstate, watch, handlers, timeouts, idles, emitted, decisions>>' = <<pstate, watch, handlers, timeouts, idles, emitted, decisions>>]_vars

\* C17 witness: no-more-pads arrived when every recognized kind already had
\* capabilities, and nothing has decided.
C17_Witness ==
    /\ _nomorepads /\ decisions = << >> /\ idles = 0 /\ ~finished
    /\ is_audio /\ is_video /\ Truthy(audiocaps) /\ Truthy(videocaps)

\* C18: an unknown-type report appends its descriptor to otherstreams; when
\* audio or video is already recognized it decides nothing and leaves
\* finished and the outcome alone; when neither is, it sets finished and
\* decides failure.
C18_UnknownTypeFatalOnlyAlone ==
    [][otherstreams' # otherstreams =>
          /\ \E str \in UnknownCaps : otherstreams' = Append(otherstreams, str)
          /\ IF is_audio \/ is_video
             THEN /\ decisions' = decisions /\ idles' = idles
                  /\ finished' = finished /\ _success' = _success
                  /\ watch' = watch /\ timeouts' = timeouts
             ELSE /\ finished' /\ ~_success'
                  /\ Len(decisions') = Len(decisions) + 1
                  /\ decisions'[Len(decisions')].by = "unknown"
                  /\ ~decisions'[Len(decisions')].success]_vars

\* C18 witness: an unknown-type report was recorded after audio was
\* recognized, and nothing has decided.
C18_Witness ==
    /\ otherstreams # << >> /\ is_audio
    /\ decisions = << >> /\ ~finished /\ pstate = "PLAYING"

\* C19: a step that emits 'discovered' with success does so with audio or
\* video recognized and capabilities recorded for every recognized kind.
C19_SuccessMeansNegotiated ==
    [][(Len(emitted') > Len(emitted) /\ emitted'[Len(emitted')].success) =>
          /\ is_audio' \/ is_video'
          /\ is_audio' => Truthy(audiocaps')
          /\ is_video' => Truthy(videocaps')]_vars

\* C20: at most one timeout source is pending, and it is the one recorded
\* in _timeoutid, also when discover() is called on a running session.
C20_OneTimeoutPending ==
    /\ Cardinality(timeouts) <= 1
    /\ timeouts \subseteq {_timeoutid}

====
